---- MODULE Spec2Model ----
(***************************************************************************)
(* A model of lume's virtual file layer (Reader: read cache, remote file   *)
(* overlay, getInfo, readDir) and of the build / update cycle of Site.     *)
(*                                                                         *)
(* Paths are modelled as the list of their "/"-separated segments, with a  *)
(* flag for a leading slash and a flag for a trailing slash, so that       *)
(* posix.dirname, posix.basename, posix.join and Reader.getFullPath are    *)
(* computed on them as the library computes them on strings.               *)
(***************************************************************************)
EXTENDS Integers, Naturals, Sequences, FiniteSets, Bags, TLC

VARIABLES
    cache,              \* Reader.cache: fullpath -> id of the promise (load)
    remoteFiles,        \* Reader.remoteFiles: fullpath -> [url, filename, disabled]
    remoteDirectories,  \* Reader.remoteDirectories: set of fullpaths
    localFS,            \* the local file system under src: fullpath -> "none" | "file" | "dir"
    loads,              \* the promises returned by loaders, in order of creation
    reads,              \* the calls of Reader.read, in order of call
    rf,                 \* the running call of Reader.remoteFile (its local variables)
    last,               \* what the last getInfo / readDir call returned
    site,               \* the state of the running build / update cycle of Site
    util                \* the running calls of the functions of utils.js

readerVars == <<cache, remoteFiles, remoteDirectories, localFS, loads, reads, rf, last>>
vars == <<cache, remoteFiles, remoteDirectories, localFS, loads, reads, rf, last, site,
          util>>

-----------------------------------------------------------------------------
(* Paths *)

P(abs, segs, trail) == [abs |-> abs, segs |-> segs, trail |-> trail]

\* "a/b"
Rel(segs) == P(FALSE, segs, FALSE)

\* "/a/b"
Abs(segs) == P(TRUE, segs, FALSE)

\* "." : what posix.dirname returns for a name without directory
Dot == Rel(<<>>)

Front(s) == SubSeq(s, 1, Len(s) - 1)

\* posix.dirname: drops the last segment (a trailing slash is ignored);
\* dirname("a") = ".", dirname("/a") = "/", dirname("/") = "/", dirname(".") = "."
dirname(p) ==
    IF p.segs = <<>> THEN P(p.abs, <<>>, FALSE)
    ELSE P(p.abs, Front(p.segs), FALSE)

\* posix.basename: the last segment
basename(p) == IF p.segs = <<>> THEN "" ELSE p.segs[Len(p.segs)]

\* posix.join(a, b): both joined with "/" and normalized; a leading slash of b
\* does not restart the path, and a trailing slash of b is kept
join(a, b) ==
    P(a.abs, a.segs \o b.segs, b.trail \/ (b.abs /\ b.segs = <<>>))

\* Reader.src (site.src() is an absolute path)
Src == Abs(<<"site">>)

\* Reader.getFullPath
getFullPath(path) ==
    LET fullPath == join(Src, path)
    IN  IF fullPath.trail THEN P(fullPath.abs, fullPath.segs, FALSE) ELSE fullPath

-----------------------------------------------------------------------------
(* Bounds and input sets *)

\* the number of loader invocations of a run
MaxLoads == 2

\* the number of calls of Reader.read that wait at the same time
MaxReaders == 2

\* the number of build / update cycles of a site
MaxCycles == 2

Loaders == {"L1", "L2"}

\* the URLs remote files are registered with
Url1 == Rel(<<"https:", "cdn", "f">>)

Urls == {Url1}

NoPath == Rel(<<"(none)">>)

-----------------------------------------------------------------------------
(* Values *)

\* the content a loader's promise resolves to: one fresh object per invocation
Data(id) == [type |-> "data", load |-> id]

\* the error a loader throws or rejects with
Cause(id) == [type |-> "cause", load |-> id]

NoResult == [type |-> "none"]

\* a variant: the catch clause throws the cause again as it caught it
Exception_Raw(cause, fullpath) == cause

\* new Exception("Couldn't load this file", { cause, fullpath })
Exception(cause, fullpath) ==
    [type |-> "Exception", message |-> "Couldn't load this file",
     cause |-> cause, fullpath |-> fullpath]

\* Deno.FileInfo, the fields the Reader sets
FileInfo(isFile, isDirectory, size, mtime) ==
    [isFile |-> isFile, isDirectory |-> isDirectory, isSymlink |-> FALSE,
     size |-> size, mtime |-> mtime]

\* Deno.DirEntry
DirEntry(name, isFile) ==
    [name |-> name, isFile |-> isFile, isDirectory |-> ~isFile, isSymlink |-> FALSE]

\* the entry of Reader.remoteFiles: { url, filename }, disabled not set
RemoteFile_(filename, url) ==
    [url |-> url, filename |-> filename, disabled |-> "undefined"]

\* no call of remoteFile is running
NoRf == [active |-> FALSE, filename |-> Dot]

NoInfo == FileInfo(FALSE, FALSE, 0, "undefined")

\* nothing recorded: the last step was no call of getInfo, readDir or read
NoLast ==
    [op |-> "none", path |-> Dot,
     \* getInfo and readDir
     ret |-> "none", info |-> NoInfo, yielded |-> <<>>, before |-> "undefined",
     locals |-> {},
     \* read
     loader |-> "none", load |-> 0, by |-> "none", invoked |-> FALSE,
     loadPath |-> NoPath,
     status |-> "none", result |-> NoResult, cause |-> NoResult, joined |-> {},
     cached |-> "none", afterDelete |-> FALSE, localAtCall |-> FALSE,
     remoteAtCall |-> FALSE]

-----------------------------------------------------------------------------
(* The local file system (the environment of the Reader) *)

\* the files and directories that may exist locally under src
LocalFiles == {getFullPath(Rel(<<"f">>)), getFullPath(Rel(<<"d", "f">>))}

LocalDirs == {getFullPath(Rel(<<"d">>))}

\* what Deno.stat finds at fullpath
Local(fullpath) ==
    IF fullpath \in DOMAIN localFS THEN localFS[fullpath] ELSE "none"

\* the names Deno.readDir yields for the directory fullpath (none when it
\* does not exist: the error is caught and ignored)
LocalEntries(fullpath) ==
    {q \in DOMAIN localFS : localFS[q] # "none" /\ dirname(q) = fullpath}

\* a file or directory appears under src
LocalCreate(q) ==
    /\ localFS[q] = "none"
    /\ dirname(q) = Src \/ Local(dirname(q)) = "dir"
    /\ localFS' = [localFS EXCEPT ![q] = IF q \in LocalDirs THEN "dir" ELSE "file"]
    /\ last' = NoLast
    /\ UNCHANGED <<cache, remoteFiles, remoteDirectories, loads, reads, rf, site, util>>

\* a file or an empty directory disappears
LocalDelete(q) ==
    /\ localFS[q] # "none"
    /\ LocalEntries(q) = {}
    /\ localFS' = [localFS EXCEPT ![q] = "none"]
    /\ last' = NoLast
    /\ UNCHANGED <<cache, remoteFiles, remoteDirectories, loads, reads, rf, site, util>>

-----------------------------------------------------------------------------
(* Reader.remoteFile *)

\* new Map()
EmptyMap == [q \in {} |-> 0]

\* m with key k set to v (Map.set)
MapSet(m, k, v) ==
    [q \in DOMAIN m \cup {k} |-> IF q = k THEN v ELSE m[q]]

\* m without the key k (Map.delete)
MapDelete(m, k) == [q \in DOMAIN m \ {k} |-> m[q]]

\* a variant: only the directory of the file is added
remoteFileLoops_OneLevel(directory, filename) ==
    directory # Dot /\ directory = dirname(filename)

\* the condition of the while loop of remoteFile
remoteFileLoops(directory, filename) == directory # Dot

RECURSIVE remoteFileEnds(_, _)
\* whether the loop of remoteFile, at directory, comes to its end: it does not
\* when it reaches a directory that is its own posix.dirname
remoteFileEnds(directory, filename) ==
    IF ~remoteFileLoops(directory, filename) THEN TRUE
    ELSE IF dirname(directory) = directory THEN FALSE
    ELSE remoteFileEnds(dirname(directory), filename)

RECURSIVE remoteFileAdds(_, _)
\* the directories the loop of remoteFile adds to remoteDirectories from
\* directory on
remoteFileAdds(directory, filename) ==
    IF ~remoteFileLoops(directory, filename) THEN {}
    ELSE IF dirname(directory) = directory THEN {getFullPath(directory)}
    ELSE {getFullPath(directory)} \cup remoteFileAdds(dirname(directory), filename)

\* remoteFile(filename, url): the parent directories are added, then the file
\* is registered; a call whose loop does not end never returns and nothing runs
\* after it
RemoteFile(filename, url) ==
    LET directory == dirname(filename)
    IN  /\ ~rf.active
        /\ remoteDirectories' = remoteDirectories \cup remoteFileAdds(directory, filename)
        /\ IF remoteFileEnds(directory, filename)
           THEN /\ remoteFiles' = MapSet(remoteFiles, getFullPath(filename),
                                         RemoteFile_(filename, url))
                /\ rf' = rf
           ELSE /\ remoteFiles' = remoteFiles
                /\ rf' = [active |-> TRUE, filename |-> filename]
        /\ last' = NoLast
        /\ UNCHANGED <<cache, localFS, loads, reads, site, util>>

-----------------------------------------------------------------------------
(* Reader.deleteCache, Reader.clearCache *)

\* the promises that the cache c or a waiting call of rs still refers to: the
\* others are garbage
Referenced(ls, c, rs) ==
    [id \in {k \in DOMAIN ls : (\E q \in DOMAIN c : c[q] = k)
                                \/ (\E r \in BagToSet(rs) : r.load = k)}
        |-> ls[id]]

\* the loads of fullpath
LoadsOf(fullpath) == {id \in DOMAIN loads : loads[id].fullpath = fullpath}

\* the loads of ids are marked: a cache invalidation followed them
Invalidated(ids) ==
    [id \in DOMAIN loads |->
        IF id \in ids THEN [loads[id] EXCEPT !.inval = TRUE] ELSE loads[id]]

\* this.cache.delete(fullPath)
deleteCache(c, fullPath) == MapDelete(c, fullPath)

DeleteCache(path) ==
    LET fullPath == getFullPath(path)
    IN  /\ ~rf.active
        /\ cache' = deleteCache(cache, fullPath)
        /\ loads' = Referenced(Invalidated(LoadsOf(fullPath)), cache', reads)
        /\ last' = [NoLast EXCEPT !.op = "deleteCache", !.path = fullPath]
        /\ UNCHANGED <<remoteFiles, remoteDirectories, localFS, reads, rf, site, util>>

ClearCache ==
    /\ ~rf.active
    /\ cache' = EmptyMap
    /\ loads' = Referenced(Invalidated(DOMAIN loads), cache', reads)
    /\ last' = NoLast
    /\ UNCHANGED <<remoteFiles, remoteDirectories, localFS, reads, rf, site, util>>

-----------------------------------------------------------------------------
(* Reader.read *)

\* const loadPath = (!remote || remote.disabled) ? fullpath : remote.url
loadPathOf(fullpath) ==
    IF fullpath \notin DOMAIN remoteFiles \/ remoteFiles[fullpath].disabled = "true"
    THEN fullpath
    ELSE remoteFiles[fullpath].url

\* a variant: read does not look in the cache
cacheHas_Never(fullpath) == FALSE

\* this.cache.has(fullpath)
cacheHas(fullpath) == fullpath \in DOMAIN cache

\* a variant: read does not store the promise
cacheSet_Skip(c, fullpath, id) == c

\* this.cache.set(fullpath, loader(loadPath))
cacheSet(c, fullpath, id) == MapSet(c, fullpath, id)

\* the id of the next promise
NewLoad == CHOOSE id \in 1..MaxLoads : id \notin DOMAIN loads

\* the loads of (fullpath, loader) that are pending and that no deleteCache or
\* clearCache has followed: a read called now is concurrent with the reads that
\* started them
PendingLoads(fullpath, loader) ==
    {id \in LoadsOf(fullpath) :
        /\ loads[id].loader = loader
        /\ loads[id].status = "pending"
        /\ ~loads[id].inval}

\* the number of calls of read that are waiting
Waiting == BagCardinality(reads)

\* what is recorded of a call read(path, loader) when it is made
ReadEvent(fullpath, loader, load, invoked, loadPath) ==
    [NoLast EXCEPT
       !.op = "read", !.path = fullpath, !.loader = loader, !.load = load,
       !.by = IF invoked THEN loader ELSE loads[load].loader,
       !.invoked = invoked, !.loadPath = loadPath,
       !.joined = PendingLoads(fullpath, loader),
       !.cached = IF cacheHas(fullpath) THEN loads[cache[fullpath]].loader ELSE "none",
       !.afterDelete = last.op = "deleteCache" /\ last.path = fullpath,
       !.localAtCall = Local(fullpath) # "none",
       !.remoteAtCall = fullpath \in DOMAIN remoteFiles]

\* a call of read that awaits the promise `load`
Reading(fullpath, loader, load) ==
    [fullpath |-> fullpath, loader |-> loader, load |-> load]

\* read(path, loader) is called with the path in the cache: the call awaits the
\* promise of the cache
ReadCallHit(path, loader) ==
    LET fullpath == getFullPath(path)
    IN  /\ ~rf.active
        /\ Waiting < MaxReaders
        /\ cacheHas(fullpath)
        /\ reads' = reads (+) SetToBag({Reading(fullpath, loader, cache[fullpath])})
        /\ last' = ReadEvent(fullpath, loader, cache[fullpath], FALSE, NoPath)
        /\ UNCHANGED <<cache, remoteFiles, remoteDirectories, localFS, loads, rf, site, util>>

\* read(path, loader) is called with the path not in the cache: the loader is
\* invoked on loadPath and its promise is stored in the cache
ReadCallMiss(path, loader) ==
    LET fullpath == getFullPath(path)
        loadPath == loadPathOf(fullpath)
        id == NewLoad
    IN  /\ ~rf.active
        /\ Waiting < MaxReaders
        /\ Cardinality(DOMAIN loads) < MaxLoads
        /\ ~cacheHas(fullpath)
        /\ loads' = MapSet(loads, id, [fullpath |-> fullpath, loader |-> loader,
                                       loadPath |-> loadPath, status |-> "pending",
                                       value |-> NoResult, inval |-> FALSE,
                                       delivered |-> {}])
        /\ cache' = cacheSet(cache, fullpath, id)
        /\ reads' = reads (+) SetToBag({Reading(fullpath, loader, id)})
        /\ last' = ReadEvent(fullpath, loader, id, TRUE, loadPath)
        /\ UNCHANGED <<remoteFiles, remoteDirectories, localFS, rf, site, util>>

\* read(path, loader) is called with the path not in the cache and the loader
\* throws instead of returning a promise: nothing is stored in the cache and the
\* error is caught and wrapped
ReadCallThrow(path, loader) ==
    LET fullpath == getFullPath(path)
        loadPath == loadPathOf(fullpath)
    IN  /\ ~rf.active
        /\ ~cacheHas(fullpath)
        \* no promise comes to be: the load has the number 0, which no promise has
        /\ last' = [ReadEvent(fullpath, loader, 0, TRUE, loadPath) EXCEPT
                      !.status = "threw",
                      !.cause = Cause(0),
                      !.result = Exception(Cause(0), fullpath)]
        /\ UNCHANGED <<cache, remoteFiles, remoteDirectories, localFS, loads, reads,
                       rf, site, util>>

\* the promise of a loader settles: it resolves to a content or rejects
LoaderSettle(id, ok) ==
    /\ ~rf.active
    /\ id \in DOMAIN loads
    /\ loads[id].status = "pending"
    /\ loads' = [loads EXCEPT ![id] =
                    [@ EXCEPT !.status = IF ok THEN "resolved" ELSE "rejected",
                              !.value = IF ok THEN Data(id) ELSE Cause(id)]]
    /\ last' = NoLast
    /\ UNCHANGED <<cache, remoteFiles, remoteDirectories, localFS, reads, rf, site, util>>

\* what the call r gets when its await ends: the content the promise resolved
\* to, or the error it rejected with, caught and wrapped
awaited(r) ==
    IF loads[r.load].status = "resolved" THEN loads[r.load].value
    ELSE Exception(loads[r.load].value, r.fullpath)

\* the await of a call of read ends: the content is returned, or the wrapped
\* error is thrown
ReadReturn(r) ==
    /\ ~rf.active
    /\ BagIn(r, reads)
    /\ loads[r.load].status # "pending"
    /\ reads' = reads (-) SetToBag({r})
    /\ loads' = Referenced([loads EXCEPT ![r.load].delivered = @ \cup {awaited(r)}],
                           cache, reads')
    /\ last' =
          [NoLast EXCEPT
             !.op = "return", !.path = r.fullpath, !.loader = r.loader,
             !.load = r.load, !.by = loads[r.load].loader,
             !.loadPath = loads[r.load].loadPath,
             !.status = IF loads[r.load].status = "resolved" THEN "returned" ELSE "threw",
             !.cause = IF loads[r.load].status = "resolved" THEN NoResult
                       ELSE loads[r.load].value,
             !.result = awaited(r)]
    /\ UNCHANGED <<cache, remoteFiles, remoteDirectories, localFS, rf, site, util>>

-----------------------------------------------------------------------------
(* Reader.getInfo *)

\* a variant: a disabled remote file stays disabled
getInfoDisabled_Sticky(found, before) ==
    IF found \/ before = "true" THEN "true" ELSE "false"

\* remoteFile.disabled = true when Deno.stat finds the path, false when it
\* throws NotFound
getInfoDisabled(found, before) == IF found THEN "true" ELSE "false"

\* the info returned for a remote file or a remote directory
syntheticInfo(remoteFile) == FileInfo(remoteFile, ~remoteFile, 0, "null")

\* the info Deno.stat returns for a local file or directory
LocalInfo(kind, size) == FileInfo(kind = "file", kind = "dir", size, "time")

\* getInfo(path); size is the size of the local file, when there is one
GetInfo(path, size) ==
    LET fullPath == getFullPath(path)
        remoteFile == fullPath \in DOMAIN remoteFiles
        remoteDirectory == fullPath \in remoteDirectories
        found == Local(fullPath) # "none"
        before == IF remoteFile THEN remoteFiles[fullPath].disabled ELSE "undefined"
    IN  /\ ~rf.active
        /\ remoteFiles' =
              IF remoteFile
              THEN [remoteFiles EXCEPT ![fullPath].disabled = getInfoDisabled(found, before)]
              ELSE remoteFiles
        /\ last' =
              [NoLast EXCEPT
                 !.op = "getInfo",
                 !.path = fullPath,
                 !.before = before,
                 !.ret = IF found \/ remoteFile \/ remoteDirectory
                         THEN "info" ELSE "undefined",
                 !.info = IF found THEN LocalInfo(Local(fullPath), size)
                          ELSE IF remoteFile \/ remoteDirectory
                               THEN syntheticInfo(remoteFile)
                               ELSE NoInfo]
        /\ UNCHANGED <<cache, remoteDirectories, localFS, loads, reads, rf, site, util>>

-----------------------------------------------------------------------------
(* Reader.readDir *)

RECURSIVE SeqOf(_)
\* the elements of a finite set, one after the other
SeqOf(S) ==
    IF S = {} THEN <<>>
    ELSE LET x == CHOOSE y \in S : TRUE IN <<x>> \o SeqOf(S \ {x})

Range(s) == {s[i] : i \in DOMAIN s}

\* the entries of the local directory fullPath, as Deno.readDir yields them
realEntries(fullPath) ==
    SeqOf({DirEntry(basename(q), localFS[q] = "file") : q \in LocalEntries(fullPath)})

\* the remote directories whose parent is fullPath
remoteDirectoryEntries(fullPath) ==
    SeqOf({DirEntry(basename(directory), FALSE) :
             directory \in {q \in remoteDirectories : dirname(q) = fullPath}})

\* a variant: readDir leaves the flag as it finds it
remoteDisabled_Keep(file, remotes) == remoteFiles[file].disabled = "true"

\* remote.disabled = remotes.has(name)
remoteDisabled(file, remotes) == basename(file) \in remotes

\* the remote files whose parent is fullPath and that are not disabled
remoteFileEntries(fullPath, remotes) ==
    SeqOf({DirEntry(basename(file), TRUE) :
             file \in {q \in DOMAIN remoteFiles :
                         dirname(q) = fullPath /\ ~remoteDisabled(q, remotes)}})

\* readDir(path), iterated to its end
ReadDir(path) ==
    LET fullPath == getFullPath(path)
        real == realEntries(fullPath)
        remotes == {real[i].name : i \in DOMAIN real}
    IN  /\ ~rf.active
        /\ remoteFiles' =
              [q \in DOMAIN remoteFiles |->
                 IF dirname(q) = fullPath
                 THEN [remoteFiles[q] EXCEPT
                         !.disabled = IF remoteDisabled(q, remotes) THEN "true" ELSE "false"]
                 ELSE remoteFiles[q]]
        /\ last' =
              [NoLast EXCEPT
                 !.op = "readDir",
                 !.path = fullPath,
                 !.locals = remotes,
                 !.yielded = real \o remoteDirectoryEntries(fullPath)
                                  \o remoteFileEntries(fullPath, remotes)]
        /\ UNCHANGED <<cache, remoteDirectories, localFS, loads, reads, rf, site, util>>

-----------------------------------------------------------------------------
(* Site: the build / update cycle *)

\* a page: its url (data.url, "false" for url: false), its content (a list of
\* pieces, empty for an empty content) and its ondemand flag
Page(url, content, ondemand) == [url |-> url, content |-> content, ondemand |-> ondemand]

\* page.content of a page without content: undefined
undefinedContent == <<"#undefined">>

\* !page.content: the content is undefined or the empty string
isEmpty(content) == content \in {<<>>, undefinedContent}

\* `${content}`: the conversion to a string of a template literal; undefined
\* gives the text "undefined"
toString(content) == IF content = undefinedContent THEN <<"undefined">> ELSE content

\* what source.build may return: the pages of the source tree
ScanResults ==
    { <<>>,
      <<Page("/a/", <<"a">>, FALSE)>>,
      <<Page("/a/", <<"a">>, FALSE), Page("/c.css", <<"c">>, FALSE)>>,
      <<Page("/a/", <<>>, FALSE), Page("/b/", <<"b">>, TRUE)>>,
      <<Page("false", <<"a">>, FALSE)>>,
      <<Page("/a/", <<"a">>, FALSE), Page("/c.css", undefinedContent, FALSE)>>,
      <<Page("/w/", <<" ">>, FALSE)>> }

\* what source.getComponentsExtraCode may return
ExtraCodes == { <<>>, <<Page("/c.css", <<"x">>, FALSE)>> }

\* this.events.dispatchEvent(event): the event is dispatched to its listeners;
\* the result is false when one of them returned false
dispatchEvent(st, type, result) ==
    [st EXCEPT !.events = Append(@, [type |-> type, result |-> result])]

\* the state when build() or update(files) is called: what is recorded of the
\* cycle before is dropped; site.pages, site.files and the dest folder stay
NewCycle(kind, files) ==
    [site EXCEPT !.kind = kind, !.changed = files, !.events = <<>>, !.calls = <<>>,
                 !.outcome = "none", !.saved = <<>>, !.scanned = <<>>,
                 !.extras = <<>>, !.merged = <<>>,
                 !.destAtStart = site.dest,
                 !.wrote = <<>>, !.copied = <<>>, !.error = "none", !.log = {},
                 !.entries = {}, !.removed = {}, !.rendered = <<>>,
                 !.cycles = @ + 1]

\* an empty dest folder: the dest folder is the content of each output path
EmptyDest == [u \in {} |-> <<>>]

\* writer.clear(): the dest folder and what the writer knows of it are emptied
writerClear(dest) == EmptyDest

\* writer.removeFiles(paths): the outputs are deleted
writerRemoveFiles(dest, paths) == [u \in DOMAIN dest \ paths |-> dest[u]]

\* the content differs from what was last written at the output path (or
\* nothing was written there)
writerChanged(dest, url, content) == url \notin DOMAIN dest \/ dest[url] # content

\* the dest folder with the content written at the output path
writerWrite(dest, url, content) ==
    [u \in DOMAIN dest \cup {url} |-> IF u = url THEN content ELSE dest[u]]

RECURSIVE writerSave(_, _, _)
\* writer.savePages(pages) / writer.copyFiles(files): each output is written
\* when it changed; gives the dest folder and the list of the outputs written
writerSave(dest, written, outputs) ==
    IF outputs = <<>> THEN [dest |-> dest, written |-> written]
    ELSE LET o == Head(outputs)
         IN  IF writerChanged(dest, o.url, o.content)
             THEN writerSave(writerWrite(dest, o.url, o.content),
                             Append(written, o.url), Tail(outputs))
             ELSE writerSave(dest, written, Tail(outputs))

\* site.files: the static files of the source tree
StaticFiles == <<Page("/s.png", <<"s">>, FALSE)>>

\* the source file of the page or static file with the output path: "/a.md"
\* of the page "/a/", "/s.png" of the static file "/s.png"; the feed that a
\* listener pushed has no source, the other pages have sources of their own
sourceOf(output) ==
    CASE output = "/a/" -> "/a.md"
      [] output = "/s.png" -> "/s.png"
      [] output = "/feed.rss" -> "(none)"
      [] OTHER -> output \o ".md"

\* a variant: the outputs of every page and static file of site
OutputsOf_All(st, entries) ==
    {st.pages[i].url : i \in DOMAIN st.pages} \cup {st.files[i].url : i \in DOMAIN st.files}

\* the output paths of the pages and of the static files of site whose source
\* entry is one of the entries (page.src.entry === entry, file.entry === entry)
OutputsOf(st, entries) ==
    {st.pages[i].url : i \in {j \in DOMAIN st.pages : sourceOf(st.pages[j].url) \in entries}}
    \cup
    {st.files[i].url : i \in {j \in DOMAIN st.files : sourceOf(st.files[j].url) \in entries}}

\* the state with the dest folder as given
Dest(st, dest) == [st EXCEPT !.dest = dest]

\* a variant: build always empties the dest folder
emptiesDest_Always(emptyDest) == TRUE

\* if (this.options.emptyDest)
emptiesDest(emptyDest) == emptyDest

\* the state with the step `name` recorded as run
Called(st, name) == [st EXCEPT !.calls = Append(@, name)]

\* the cycle ends: build / update returns (or throws), its argument goes with it
Ended(st, outcome) == [st EXCEPT !.pc = "idle", !.outcome = outcome, !.changed = {}]

At(st, pc) == [st EXCEPT !.pc = pc]

\* a variant: the error of a step is caught and the cycle goes on to its end
Thrown_Caught(st, name) == [At(st, "after") EXCEPT !.error = name]

\* the step `name` throws: nothing in build / update catches the error, which
\* ends the cycle and is thrown to the caller
Thrown(st, name) == [Ended(st, "failed") EXCEPT !.error = name]

\* build() is called: beforeBuild is dispatched, then the dest folder is cleared
BuildStart(result) ==
    LET st == dispatchEvent(NewCycle("build", {}), "beforeBuild", result)
    IN  /\ site.pc = "idle"
        /\ site.cycles < MaxCycles
        /\ site' = IF result = FALSE THEN Ended(st, "cancelled")
                   ELSE IF emptiesDest(site.emptyDest)
                   THEN At(Called(Dest(st, writerClear(st.dest)), "clear"), "scan")
                   ELSE At(st, "scan")
        /\ UNCHANGED <<readerVars, util>>

\* update(files) is called: beforeUpdate is dispatched, then the caches of the
\* changed files are deleted and, for the files for which this.fs.update gives
\* an entry (entries), the outputs that depend on the entry are removed
UpdateStart(files, entries, result) ==
    LET st == dispatchEvent(NewCycle("update", files), "beforeUpdate", result)
        searched == Called(st, "searcher.deleteCache")
        paths == OutputsOf(st, entries)
        removed == [Dest(searched, writerRemoveFiles(st.dest, paths)) EXCEPT
                       !.entries = entries, !.removed = paths]
    IN  /\ site.pc = "idle"
        /\ site.cycles < MaxCycles
        /\ entries \subseteq files
        /\ site' = IF result = FALSE THEN Ended(st, "cancelled")
                   ELSE IF files = {} THEN At(searched, "scan")
                   ELSE IF entries # {}
                   THEN At(Called(Called(removed, "deleteCache"), "removeFiles"), "scan")
                   ELSE At(Called(searched, "deleteCache"), "scan")
        /\ UNCHANGED <<readerVars, util>>

\* source.build: the source tree is scanned through the filter of the changed
\* files (it may throw); the changed files and what was recorded of the removal
\* of outputs are not kept further
Scan(pages, ok) ==
    LET st == [site EXCEPT !.changed = {}, !.entries = {}, !.removed = {}]
    IN  /\ site.pc = "scan"
        /\ site' = IF ok
                   THEN [At(Called(st, "scan"), "beforeRender") EXCEPT
                           !.scanned = pages, !.files = StaticFiles]
                   ELSE Thrown(Called(st, "scan"), "scan")
    /\ UNCHANGED <<readerVars, util>>

\* a variant: the result of beforeRender is not looked at
buildPagesCancelled_Never(result) == FALSE

\* await this.dispatchEvent(...) === false
buildPagesCancelled(result) == result = FALSE

\* #buildPages: beforeRender is dispatched
BeforeRender(result) ==
    LET st == dispatchEvent(site, "beforeRender", result)
    IN  /\ site.pc = "beforeRender"
        /\ site' = IF buildPagesCancelled(result) THEN Ended(st, "cancelled")
                   ELSE At(st, "render")
        /\ UNCHANGED <<readerVars, util>>


\* the index of the first page of pages with the url, 0 when there is none
\* (this.pages.find)
FindUrl(pages, url) ==
    LET found == {i \in DOMAIN pages : pages[i].url = url}
    IN  IF found = {} THEN 0 ELSE CHOOSE i \in found : \A j \in found : i <= j

RECURSIVE mergeExtraCode(_, _)
\* the extra code of the components is added to the pages: merged in the page
\* with the same url, pushed as a new page otherwise
mergeExtraCode(pages, extras) ==
    IF extras = <<>> THEN pages
    ELSE LET extra == Head(extras)
             exists == FindUrl(pages, extra.url)
         IN  mergeExtraCode(
                IF exists # 0
                THEN [pages EXCEPT ![exists].content =
                                       toString(@) \o <<"\n">> \o toString(extra.content)]
                ELSE Append(pages, extra),
                Tail(extras))

\* the filter that removes the pages without url, the empty pages and the
\* ondemand pages
keepPage(page) ==
    /\ page.url # "false"
    /\ ~(isEmpty(page.content) \/ page.ondemand)

removeSkipped(pages) == SelectSeq(pages, keepPage)

\* the warnings of the filter: the url of each page skipped for its content or
\* for being ondemand, with the reason
skippedWarnings(pages) ==
    {[url |-> pages[i].url,
      reason |-> IF pages[i].ondemand THEN "page is build only on demand"
                 ELSE "file content is empty"] :
        i \in {j \in DOMAIN pages :
                  /\ pages[j].url # "false"
                  /\ isEmpty(pages[j].content) \/ pages[j].ondemand}}

\* renderer.renderPages, then the extra code and the filter (render may throw)
Render(extras, ok) ==
    LET merged == mergeExtraCode(site.scanned, extras)
    IN  /\ site.pc = "render"
        /\ site' = IF ok
                   THEN [At(Called(site, "render"), "afterRender") EXCEPT
                           !.extras = extras,
                           !.merged = merged,
                           !.pages = removeSkipped(merged),
                           !.log = skippedWarnings(merged)]
                   ELSE [Thrown(Called(site, "render"), "render") EXCEPT !.pages = <<>>]
        /\ UNCHANGED <<readerVars, util>>

\* what the listeners of afterRender may push to site.pages: nothing, or the
\* feed of the rss plugin
PushedPages == { <<>>, <<Page("/feed.rss", <<"r">>, FALSE)>> }

\* afterRender is dispatched: its listeners may push pages to site.pages
AfterRender(pushed, result) ==
    LET st == dispatchEvent([site EXCEPT !.pages = @ \o pushed, !.scanned = <<>>,
                                         !.extras = <<>>, !.merged = <<>>],
                            "afterRender", result)
    IN  /\ site.pc = "afterRender"
        /\ site' = IF result = FALSE THEN Ended(st, "cancelled")
                   ELSE At(st, "processors")
        /\ UNCHANGED <<readerVars, util>>

\* minify(content): the content without its insignificant white space
minify(content) == SelectSeq(content, LAMBDA piece : piece # " ")

\* the processor of the minify_html plugin: page.content = minify(page.content)
minifyHtml(page) == [page EXCEPT !.content = minify(@)]

\* the processors registered in the site: none, or minifyHtml
ProcessorSets == {"none", "minifyHtml"}

\* the pages after the processors have run on them
processorsRun(processors, pages) ==
    IF processors = "minifyHtml" THEN [i \in DOMAIN pages |-> minifyHtml(pages[i])]
    ELSE pages

\* this.processors.run(this.pages) (it may throw)
Processors(processors, ok) ==
    /\ site.pc = "processors"
    /\ site' = IF ok
               THEN [At(Called(site, "processors"), "beforeSave") EXCEPT
                       !.pages = processorsRun(processors, site.pages)]
               ELSE Thrown(Called(site, "processors"), "processors")
    /\ UNCHANGED <<readerVars, util>>

\* a variant: build and update do not look at what #buildPages returns
cycleStops_Never(result) == FALSE

\* await this.#buildPages(_pages) === false, in build and in update
cycleStops(result) == result = FALSE

\* beforeSave is dispatched: its result is the result of #buildPages
BeforeSave(result) ==
    LET st == dispatchEvent(site, "beforeSave", result)
    IN  /\ site.pc = "beforeSave"
        /\ site' = IF cycleStops(result) THEN Ended(st, "cancelled")
                   ELSE At(st, "savePages")
        /\ UNCHANGED <<readerVars, util>>

\* this.writer.savePages(this.pages) (it may throw)
SavePages(ok) ==
    LET save == writerSave(site.dest, <<>>, site.pages)
    IN  /\ site.pc = "savePages"
        /\ site' = IF ok
                   THEN [At(Called(site, "savePages"), "copyFiles") EXCEPT
                           !.saved = site.pages, !.dest = save.dest,
                           !.wrote = save.written]
                   ELSE Thrown(Called(site, "savePages"), "savePages")
        /\ UNCHANGED <<readerVars, util>>

\* this.writer.copyFiles(this.files) (it may throw)
CopyFiles(ok) ==
    LET copy == writerSave(site.dest, <<>>, site.files)
    IN  /\ site.pc = "copyFiles"
        /\ site' = IF ok
                   THEN [At(Called(site, "copyFiles"), "after") EXCEPT
                           !.dest = copy.dest, !.copied = copy.written]
                   ELSE Thrown(Called(site, "copyFiles"), "copyFiles")
        /\ UNCHANGED <<readerVars, util>>

\* a variant: update dispatches the event of build
afterEvent_Build(kind) == "afterBuild"

\* the last event of the cycle: afterBuild in build, afterUpdate in update
afterEvent(kind) == IF kind = "build" THEN "afterBuild" ELSE "afterUpdate"

\* afterBuild / afterUpdate is dispatched and build / update returns
AfterCycle(result) ==
    /\ site.pc = "after"
    /\ site' = Ended(dispatchEvent(site, afterEvent(site.kind), result), "done")
    /\ UNCHANGED <<readerVars, util>>

-----------------------------------------------------------------------------
(* Site.renderPage: the render of one page on demand *)

\* the source files renderPage is called with
OnDemandFiles == {"/b.md", "/none.md"}

\* renderPage(file) is called: the source tree is scanned for the file
RenderPageStart(file) ==
    /\ site.pc = "idle"
    /\ site.cycles < MaxCycles
    /\ site' = At(NewCycle("renderPage", {file}), "onDemandScan")
    /\ UNCHANGED <<readerVars, util>>

\* source.build with the filter of the file (it may throw): the page is the
\* first of the pages found; without one renderPage returns undefined
OnDemandScan(pages, ok) ==
    /\ site.pc = "onDemandScan"
    /\ site' = IF ~ok THEN Thrown(Called(site, "scan"), "scan")
               ELSE IF pages = <<>> THEN Ended(Called(site, "scan"), "done")
               ELSE [At(Called(site, "scan"), "beforeRenderOnDemand") EXCEPT
                       !.scanned = <<Head(pages)>>]
    /\ UNCHANGED <<readerVars, util>>

\* beforeRenderOnDemand is dispatched: renderPage awaits dispatchEvent and
\* does not look at its result
BeforeRenderOnDemand(result) ==
    /\ site.pc = "beforeRenderOnDemand"
    /\ site' = At(dispatchEvent(site, "beforeRenderOnDemand", result), "renderOnDemand")
    /\ UNCHANGED <<readerVars, util>>

\* renderer.renderPageOnDemand(page) (it may throw)
RenderOnDemand(ok) ==
    /\ site.pc = "renderOnDemand"
    /\ site' = IF ok THEN At(Called(site, "renderPageOnDemand"), "onDemandProcessors")
               ELSE Thrown(Called(site, "renderPageOnDemand"), "render")
    /\ UNCHANGED <<readerVars, util>>

\* this.processors.run([page]) (it may throw), and renderPage returns the page
OnDemandProcessors(processors, ok) ==
    /\ site.pc = "onDemandProcessors"
    /\ site' = IF ok
               THEN [Ended(Called(site, "processors"), "done") EXCEPT
                       !.rendered = processorsRun(processors, site.scanned),
                       !.scanned = <<>>]
               ELSE Thrown(Called(site, "processors"), "processors")
    /\ UNCHANGED <<readerVars, util>>

-----------------------------------------------------------------------------
(* utils.js: merge and searchByExtension *)

\* no function of utils.js has been called
NoUtil == [op |-> "none"]

\* the values of JavaScript that data objects are built from
\* (every value carries the three fields: a number, the elements of an array,
\* the properties of an object)
NoProperties == [key \in {} |-> 0]
Undefined == [t |-> "undefined", n |-> 0, elements |-> <<>>, properties |-> NoProperties]
Null == [t |-> "null", n |-> 0, elements |-> <<>>, properties |-> NoProperties]
Num(n) == [t |-> "number", n |-> n, elements |-> <<>>, properties |-> NoProperties]
Arr(elements) ==
    [t |-> "array", n |-> 0, elements |-> elements, properties |-> NoProperties]
Obj(properties) ==
    [t |-> "object", n |-> 0, elements |-> <<>>, properties |-> properties]

\* the properties of the object
Props(object) == object.properties

\* typeof x === "object": true of objects, of arrays and of null
typeofObject(x) == x.t \in {"object", "array", "null"}

\* Array.isArray(x)
isArray(x) == x.t = "array"

\* !x
falsy(x) == x.t \in {"undefined", "null"} \/ (x.t = "number" /\ x.n = 0)

\* the property names of the elements of an array
IndexKeys == <<"0", "1", "2">>

\* the own properties of x, as { ...x } and Object.entries(x) give them: those
\* of an object, the elements of an array by index, none for any other value
properties(x) ==
    IF x.t = "object" THEN x.properties
    ELSE IF x.t = "array"
    THEN [key \in {IndexKeys[i] : i \in DOMAIN x.elements} |->
             x.elements[CHOOSE i \in DOMAIN x.elements : IndexKeys[i] = key]]
    ELSE NoProperties

\* a variant: an empty object replaces the value instead of being merged in it
mergesDeep_UnlessEmpty(mine, value) ==
    /\ typeofObject(mine) /\ typeofObject(value) /\ ~isArray(mine)
    /\ DOMAIN properties(value) # {}

\* typeof merged[key] === "object" && typeof value === "object" &&
\* !Array.isArray(merged[key])
mergesDeep(mine, value) ==
    typeofObject(mine) /\ typeofObject(value) /\ ~isArray(mine)

RECURSIVE merge(_, _)
\* merge(defaults, user)
merge(defaults, user) ==
    LET merged == properties(defaults)
        entries == properties(user)
    IN  IF falsy(user) THEN Obj(merged)
        ELSE Obj([key \in DOMAIN merged \cup DOMAIN entries |->
                    IF key \notin DOMAIN entries THEN merged[key]
                    ELSE IF key \in DOMAIN merged /\ mergesDeep(merged[key], entries[key])
                    THEN merge(merged[key], entries[key])
                    ELSE entries[key]])

\* the largest number in the data
MaxScalar == 2

\* the values the data objects hold: numbers and an array; null; objects of
\* such values
Leaves == {Num(n) : n \in 1..MaxScalar} \cup {Arr(<<Num(1)>>)}

ObjectsOf(keys, values) ==
    {Obj(f) : f \in UNION {[ks -> values] : ks \in SUBSET keys}}

Nested == ObjectsOf({"x", "y"}, Leaves)

DataObjects == ObjectsOf({"k"}, Leaves \cup {Null} \cup Nested)

\* a.min.js ends with .js: strings are the lists of their pieces
endsWith(path, key) ==
    /\ Len(key) <= Len(path)
    /\ SubSeq(path, Len(path) - Len(key) + 1, Len(path)) = key

NotFound == [found |-> FALSE]

RECURSIVE searchByExtension(_, _)
\* searchByExtension(path, extensions): the first entry of the Map, in its
\* order of insertion, whose key the path ends with
searchByExtension(path, extensions) ==
    IF extensions = <<>> THEN NotFound
    ELSE IF endsWith(path, Head(extensions).key)
         THEN [found |-> TRUE, key |-> Head(extensions).key,
               value |-> Head(extensions).value]
         ELSE searchByExtension(path, Tail(extensions))

\* the number of extensions registered
MaxExtensions == 2

\* the extensions that are registered: .js, .min.js, .css
ExtensionKeys == {<<".js">>, <<".min", ".js">>, <<".css">>}

\* the Maps of extensions: the entries in their order of insertion, each key
\* with the format registered for it
ExtensionMaps ==
    {m \in UNION {[1..n -> {[key |-> k, value |-> <<"format">> \o k] : k \in ExtensionKeys}] :
                     n \in 0..MaxExtensions} :
        \A i, j \in DOMAIN m : m[i].key = m[j].key => i = j}

\* the paths looked up: a.js, a.min.js, a.txt
SearchPaths == {<<"a", ".js">>, <<"a", ".min", ".js">>, <<"a", ".txt">>}

\* merge(a, b) is called
MergeAB ==
    /\ util.op = "merge"
    /\ util.ab = Undefined
    /\ util' = [util EXCEPT !.ab = merge(util.a, util.b)]
    /\ UNCHANGED <<readerVars, site>>

\* merge(b, c) is called
MergeBC ==
    /\ util.op = "merge"
    /\ util.bc = Undefined
    /\ util' = [util EXCEPT !.bc = merge(util.b, util.c)]
    /\ UNCHANGED <<readerVars, site>>

\* merge(merge(a, b), c) is called
MergeLeft ==
    /\ util.op = "merge"
    /\ util.ab # Undefined
    /\ util.left = Undefined
    /\ util' = [util EXCEPT !.left = merge(util.ab, util.c)]
    /\ UNCHANGED <<readerVars, site>>

\* merge(a, merge(b, c)) is called
MergeRight ==
    /\ util.op = "merge"
    /\ util.bc # Undefined
    /\ util.right = Undefined
    /\ util' = [util EXCEPT !.right = merge(util.a, util.bc)]
    /\ UNCHANGED <<readerVars, site>>

\* searchByExtension(path, extensions) is called
SearchByExtension ==
    /\ util.op = "search"
    /\ ~util.called
    /\ util' = [util EXCEPT !.called = TRUE,
                            !.result = searchByExtension(util.path, util.extensions)]
    /\ UNCHANGED <<readerVars, site>>

\* the number of items of the iterable
MaxItems == 3

\* the largest limit given to concurrent
MaxLimit == 3

\* a variant: one more promise is let in before the race is awaited
reachedLimit_Above(length, limit) == length > limit

\* executing.length >= limit
reachedLimit(length, limit) == length >= limit

\* executing.indexOf(p): the index of the promise of the item, -1 without it
indexOf(executing, item) ==
    IF \E i \in DOMAIN executing : executing[i] = item
    THEN CHOOSE i \in DOMAIN executing :
             /\ executing[i] = item
             /\ \A j \in DOMAIN executing : executing[j] = item => i <= j
    ELSE -1

\* executing.splice(start, 1): a negative start counts from the end
splice(executing, start) ==
    LET at == IF start < 0 THEN Len(executing) + start + 1 ELSE start
    IN  [i \in 1..(Len(executing) - 1) |->
            IF i < at THEN executing[i] ELSE executing[i + 1]]

\* a variant: the promises that are left are not awaited
pending_None(executing) == {}

\* the promises given to Promise.race / Promise.all: those of the array when
\* it is called
pending(executing) == {executing[i] : i \in DOMAIN executing}

\* concurrent(iterable, iteratorFn, limit) is called: nothing is started yet
\* (invoked: how often iteratorFn was called with the item; promise: the state
\* of the promise p of the item, "settled" / "failed" being that of the promise
\* of iteratorFn before the callback of then has run)
NewConcurrent(items, limit) ==
    [op |-> "concurrent", items |-> items, limit |-> limit, next |-> 1,
     invoked |-> [item \in 1..items |-> 0],
     promise |-> [item \in 1..items |-> "none"],
     executing |-> <<>>, waits |-> {}, pc |-> "loop"]

\* one turn of the loop: iteratorFn(item) is called, its promise with the
\* callback is pushed, and the race is awaited when the limit is reached
Iterate ==
    /\ util.op = "concurrent"
    /\ util.pc = "loop"
    /\ util.next <= util.items
    /\ LET item == util.next
           executing == Append(util.executing, item)
           races == reachedLimit(Len(executing), util.limit)
       IN  util' = [util EXCEPT !.next = @ + 1,
                                !.invoked[item] = @ + 1,
                                !.promise[item] = "running",
                                !.executing = executing,
                                !.waits = IF races THEN pending(executing) ELSE {},
                                !.pc = IF races THEN "race" ELSE "loop"]
    /\ UNCHANGED <<readerVars, site>>

\* the promise that iteratorFn returned for the item settles
Settle(item, ok) ==
    /\ util.op = "concurrent"
    /\ item \in 1..util.items
    /\ util.promise[item] = "running"
    /\ util' = [util EXCEPT !.promise[item] = IF ok THEN "settled" ELSE "rejected"]
    /\ UNCHANGED <<readerVars, site>>

\* the callback of then runs: the promise p of the item is taken out of the
\* array, and p is fulfilled
Spliced(item) ==
    /\ util.op = "concurrent"
    /\ item \in 1..util.items
    /\ util.promise[item] = "settled"
    /\ util' = [util EXCEPT !.promise[item] = "fulfilled",
                            !.executing = splice(@, indexOf(@, item))]
    /\ UNCHANGED <<readerVars, site>>

\* await Promise.race(executing) returns, or throws
Raced ==
    /\ util.op = "concurrent"
    /\ util.pc = "race"
    /\ \E item \in util.waits :
        /\ util.promise[item] \in {"fulfilled", "rejected"}
        /\ util' = [util EXCEPT !.waits = {},
                                !.pc = IF util.promise[item] = "fulfilled" THEN "loop"
                                       ELSE "rejected"]
    /\ UNCHANGED <<readerVars, site>>

\* the iterable is exhausted: Promise.all(executing) is awaited
AwaitAll ==
    /\ util.op = "concurrent"
    /\ util.pc = "loop"
    /\ util.next > util.items
    /\ util' = [util EXCEPT !.waits = pending(util.executing), !.pc = "all"]
    /\ UNCHANGED <<readerVars, site>>

\* await Promise.all(executing) returns, or throws at the first rejection
Returned ==
    /\ util.op = "concurrent"
    /\ util.pc = "all"
    /\ \/ /\ \A item \in util.waits : util.promise[item] = "fulfilled"
          /\ util' = [util EXCEPT !.waits = {}, !.pc = "resolved"]
       \/ /\ \E item \in util.waits : util.promise[item] = "rejected"
          /\ util' = [util EXCEPT !.waits = {}, !.pc = "rejected"]
    /\ UNCHANGED <<readerVars, site>>

-----------------------------------------------------------------------------
(* Site.constructor: the options of the site *)

\* the number of sites constructed
MaxSites == 2

\* the strings that dest is set to: "./_site" and "out\pub", as the lists of
\* their pieces
DestPaths == << <<".", "/", "_site">>, <<"out", "\\", "pub">> >>

\* a string value: the string number n of DestPaths
Str(n) == [t |-> "string", n |-> n, elements |-> <<>>, properties |-> NoProperties]

\* an array value as a reference: the array at the address n of the heap (two
\* values with the same address are the same array)
ArrAt(address) ==
    [t |-> "array", n |-> address, elements |-> <<>>, properties |-> NoProperties]

\* the address of the array of defaults.watcher.ignore
DefaultsIgnore == 0

\* const defaults: the options dest and watcher (ignore: [], debounce: 100)
defaults ==
    Obj("dest" :> Str(1)
        @@ "watcher" :> Obj("ignore" :> ArrAt(DefaultsIgnore) @@ "debounce" :> Num(100)))

\* the options a site is constructed with; the array of an ignore option is a
\* new array of the caller, at the address
UserOptions(address) ==
    { Obj(NoProperties),
      Obj("dest" :> Str(2)),
      Obj("watcher" :> Obj("debounce" :> Num(1))),
      Obj("watcher" :> Null),
      Obj("watcher" :> Obj("ignore" :> ArrAt(address))),
      Obj("dest" :> Str(2) @@ "watcher" :> Obj("ignore" :> ArrAt(address))) }

\* normalizePath(path): where the separator of the platform is not "/", it is
\* replaced by "/"
normalizePath(path, SEP) ==
    IF SEP # "/" THEN [i \in DOMAIN path |-> IF path[i] = SEP THEN "/" ELSE path[i]]
    ELSE path

\* the heap when the module is loaded: the array of defaults is empty
NoSites(SEP) ==
    [op |-> "sites", SEP |-> SEP, heap |-> (DefaultsIgnore :> <<>>), sites |-> <<>>]

\* new Site(options): the options are merged in the defaults, and the dest
\* folder is pushed to the array options.watcher.ignore, which the file system
\* of the site takes as its ignore list
Construct(user, elements) ==
    LET address == Len(util.sites) + 1
        options == merge(defaults, user)
        ignore == Props(Props(options)["watcher"])["ignore"].n
        dest == DestPaths[Props(options)["dest"].n]
        own == /\ "watcher" \in DOMAIN Props(user)
               /\ "ignore" \in DOMAIN Props(Props(user)["watcher"])
        heap == IF own THEN (address :> elements) @@ util.heap ELSE util.heap
    IN  /\ util.op = "sites"
        /\ ~own => elements = <<>>
        /\ Len(util.sites) < MaxSites
        /\ user \in UserOptions(address)
        /\ util' = [util EXCEPT
                      !.heap = [heap EXCEPT ![ignore] = Append(@, normalizePath(dest, util.SEP))],
                      !.sites = Append(@, [options |-> options, ignore |-> ignore])]
        /\ UNCHANGED <<readerVars, site>>

-----------------------------------------------------------------------------
(* Specifications *)

\* new Site(options), with emptyDest as the options give it
NewSite(emptyDest) ==
    [pc |-> "idle", kind |-> "none", emptyDest |-> emptyDest, changed |-> {},
     events |-> <<>>, calls |-> <<>>, outcome |-> "none",
     scanned |-> <<>>, pages |-> <<>>, saved |-> <<>>,
     dest |-> EmptyDest, destAtStart |-> EmptyDest, wrote |-> <<>>, copied |-> <<>>,
     error |-> "none", log |-> {}, cycles |-> 0, extras |-> <<>>, merged |-> <<>>,
     files |-> <<>>, entries |-> {}, removed |-> {}, rendered |-> <<>>]

\* new Reader({ src }), in an empty src folder
InitReader ==
    /\ cache = EmptyMap
    /\ remoteFiles = EmptyMap
    /\ remoteDirectories = {}
    /\ localFS = [q \in LocalFiles \cup LocalDirs |-> "none"]
    /\ loads = EmptyMap
    /\ reads = EmptyBag
    /\ rf = NoRf
    /\ last = NoLast

Init ==
    /\ InitReader
    /\ site = NewSite(TRUE)
    /\ util = NoUtil

InitSite ==
    /\ InitReader
    /\ \E emptyDest \in BOOLEAN : site = NewSite(emptyDest)
    /\ util = NoUtil

\* the paths given to read, deleteCache and getInfo: "f", "/f"
ReadPaths == {Rel(<<"f">>), Abs(<<"f">>)}

\* the calls of read, the loads and the invalidations of the cache
NextRead ==
    \/ \E path \in ReadPaths, loader \in Loaders :
          \/ ReadCallHit(path, loader)
          \/ ReadCallMiss(path, loader)
          \/ ReadCallThrow(path, loader)
    \/ \E id \in DOMAIN loads, ok \in BOOLEAN : LoaderSettle(id, ok)
    \/ \E r \in BagToSet(reads) : ReadReturn(r)
    \/ \E path \in ReadPaths : DeleteCache(path)
    \/ ClearCache

\* the cache: the reads of f, a file that may be registered as a remote file
NextCache ==
    \/ NextRead
    \/ \E url \in Urls : RemoteFile(Rel(<<"f">>), url)

SpecCache == Init /\ [][NextCache]_vars

\* the reads of f, with a remote file and a local file there
Next ==
    \/ NextRead
    \/ \E url \in Urls : RemoteFile(Rel(<<"f">>), url)
    \/ \E path \in ReadPaths : GetInfo(path, 1)
    \/ ReadDir(Dot)
    \/ LocalCreate(getFullPath(Rel(<<"f">>)))
    \/ LocalDelete(getFullPath(Rel(<<"f">>)))

Spec == Init /\ [][Next]_vars

\* the names remote files are registered with: "f", "d", "d/f", "d/e/f", "/f"
RemoteNames ==
    {Rel(<<"f">>), Rel(<<"d">>), Rel(<<"d", "f">>), Rel(<<"d", "e", "f">>),
     Abs(<<"f">>)}

\* the paths given to getInfo and readDir: ".", "f", "d", "d/", "d/f", "d/e"
OverlayPaths ==
    {Dot, Rel(<<"f">>), Rel(<<"d">>), P(FALSE, <<"d">>, TRUE), Rel(<<"d", "f">>),
     Rel(<<"d", "e">>)}

\* the remote overlay: remoteFile, getInfo and readDir over a changing src folder
NextOverlay ==
    \/ \E filename \in RemoteNames, url \in Urls : RemoteFile(filename, url)
    \/ \E path \in OverlayPaths, size \in {0, 1} : GetInfo(path, size)
    \/ \E path \in OverlayPaths : ReadDir(path)
    \/ \E q \in LocalFiles \cup LocalDirs : LocalCreate(q)
    \/ \E q \in LocalFiles \cup LocalDirs : LocalDelete(q)

SpecOverlay == Init /\ [][NextOverlay]_vars

\* the files update is called with
ChangedFiles == {"/a.md", "/s.png"}

\* the build and update cycles of a site
NextSite ==
    \/ \E result \in BOOLEAN : BuildStart(result)
    \/ \E files \in SUBSET ChangedFiles, entries \in SUBSET ChangedFiles,
          result \in BOOLEAN :
          UpdateStart(files, entries, result)
    \/ \E pages \in ScanResults, ok \in BOOLEAN : Scan(pages, ok)
    \/ \E result \in BOOLEAN : BeforeRender(result)
    \/ \E extras \in ExtraCodes, ok \in BOOLEAN : Render(extras, ok)
    \/ \E pushed \in PushedPages, result \in BOOLEAN : AfterRender(pushed, result)
    \/ \E processors \in ProcessorSets, ok \in BOOLEAN : Processors(processors, ok)
    \/ \E result \in BOOLEAN : BeforeSave(result)
    \/ \E ok \in BOOLEAN : SavePages(ok)
    \/ \E ok \in BOOLEAN : CopyFiles(ok)
    \/ \E result \in BOOLEAN : AfterCycle(result)

SpecSite == InitSite /\ [][NextSite]_vars

\* the renders of pages on demand
NextOnDemand ==
    \/ \E file \in OnDemandFiles : RenderPageStart(file)
    \/ \E pages \in ScanResults, ok \in BOOLEAN : OnDemandScan(pages, ok)
    \/ \E result \in BOOLEAN : BeforeRenderOnDemand(result)
    \/ \E ok \in BOOLEAN : RenderOnDemand(ok)
    \/ \E processors \in ProcessorSets, ok \in BOOLEAN : OnDemandProcessors(processors, ok)

SpecOnDemand == InitSite /\ [][NextOnDemand]_vars

\* the data objects given to merge, or the path and the extensions given to
\* searchByExtension
InitUtils ==
    /\ InitReader
    /\ site = NewSite(TRUE)
    /\ \/ \E a \in DataObjects, b \in DataObjects, c \in DataObjects :
             util = [op |-> "merge", a |-> a, b |-> b, c |-> c, ab |-> Undefined,
                     bc |-> Undefined, left |-> Undefined, right |-> Undefined]
       \/ \E path \in SearchPaths, extensions \in ExtensionMaps :
             util = [op |-> "search", path |-> path, extensions |-> extensions,
                     called |-> FALSE, result |-> NotFound]

\* the calls of the functions of utils.js
NextUtils ==
    \/ MergeAB
    \/ MergeBC
    \/ MergeLeft
    \/ MergeRight
    \/ SearchByExtension

SpecUtils == InitUtils /\ [][NextUtils]_vars

\* concurrent is called with an iterable of some items and a limit
InitConcurrent ==
    /\ InitReader
    /\ site = NewSite(TRUE)
    /\ \E items \in 0..MaxItems, limit \in 1..MaxLimit :
        util = NewConcurrent(items, limit)

\* the steps of concurrent and of the operations it started
NextConcurrent ==
    \/ Iterate
    \/ \E item \in 1..MaxItems, ok \in BOOLEAN : Settle(item, ok)
    \/ \E item \in 1..MaxItems : Spliced(item)
    \/ Raced
    \/ AwaitAll
    \/ Returned

SpecConcurrent == InitConcurrent /\ [][NextConcurrent]_vars

\* the module of Site is loaded, on a platform with its separator of paths
InitOptions ==
    /\ InitReader
    /\ site = NewSite(TRUE)
    /\ \E SEP \in {"/", "\\"} : util = NoSites(SEP)

\* the constructions of sites
NextOptions ==
    \E address \in 1..MaxSites :
        \E user \in UserOptions(address), elements \in {<<>>, <<<<"x">>>>} :
            Construct(user, elements)

SpecOptions == InitOptions /\ [][NextOptions]_vars

-----------------------------------------------------------------------------
(* Claims on Reader.read and its cache *)

\* the number of calls of read that wait on the promise `load`
WaitingOn(load) ==
    BagCardinality([r \in {x \in BagToSet(reads) : x.load = load} |-> reads[r]])

\* the loads that are in flight: their promise is pending
InFlight == {id \in DOMAIN loads : loads[id].status = "pending"}

\* C1: a read(path, loader) called while the load that an earlier
\* read(path, loader) started is still pending, with no deleteCache or
\* clearCache since that read, does not invoke the loader and awaits that same
\* load (so the loader is invoked once for the two calls); and all the calls
\* that await one load get the same value from it.
C1_ConcurrentReadsShareOneLoad ==
    /\ (last.op = "read" /\ last.joined # {}) =>
          /\ ~last.invoked
          /\ last.joined = {last.load}
    /\ \A id \in DOMAIN loads : Cardinality(loads[id].delivered) <= 1

\* two calls of read(path, loader) wait on one pending load, the second one
\* having joined the first
C1_Witness ==
    /\ last.op = "read"
    /\ last.joined # {}
    /\ ~last.invoked
    /\ last.load \in InFlight
    /\ WaitingOn(last.load) >= 2

\* C2, as claimed: at most one load is in flight per (path, loader) pair, and
\* the callers waiting on a pair wait on the same load.
C2_OneInFlightLoadPerPair ==
    /\ \A id1, id2 \in InFlight :
          (loads[id1].fullpath = loads[id2].fullpath
             /\ loads[id1].loader = loads[id2].loader) => id1 = id2
    /\ \A r1, r2 \in BagToSet(reads) :
          (r1.fullpath = r2.fullpath /\ r1.loader = r2.loader) => r1.load = r2.load

\* C2, amended: of the loads in flight for a path, at most one has not been
\* followed by a deleteCache of the path or a clearCache, and it is the one the
\* cache holds; the callers of read for the path wait either on a load that such
\* an invalidation followed or, all of them, on that one.
C2_OneInFlightLoadPerPathSinceInvalidation ==
    /\ \A id1, id2 \in DOMAIN loads :
          (loads[id1].fullpath = loads[id2].fullpath
             /\ ~loads[id1].inval /\ ~loads[id2].inval) => id1 = id2
    /\ \A id \in DOMAIN loads :
          ~loads[id].inval =>
             loads[id].fullpath \in DOMAIN cache /\ cache[loads[id].fullpath] = id
    /\ \A r1, r2 \in BagToSet(reads) :
          (r1.fullpath = r2.fullpath /\ ~loads[r1.load].inval /\ ~loads[r2.load].inval)
             => r1.load = r2.load

\* two loads of one (path, loader) pair are in flight, one that a deleteCache or
\* clearCache followed and the one the cache holds, each with a caller waiting
C2_Witness ==
    \E id1, id2 \in InFlight :
       /\ id1 # id2
       /\ loads[id1].fullpath = loads[id2].fullpath
       /\ loads[id1].loader = loads[id2].loader
       /\ loads[id1].inval /\ ~loads[id2].inval
       /\ WaitingOn(id1) >= 1 /\ WaitingOn(id2) >= 1


\* the location the precedence of local over remote gives for fullpath: the url
\* of the remote file when one is registered and no local file exists
ByPrecedence(fullpath, local, remote) ==
    IF remote /\ ~local THEN remoteFiles[fullpath].url ELSE fullpath

\* C3, as claimed: the read(path, loader) that follows deleteCache(path)
\* invokes the loader, on the remote url if a remote file is registered at path
\* and no local file exists there, on the local path otherwise.
C3_ReadAfterDeleteCacheReloadsByPrecedence ==
    (last.op = "read" /\ last.afterDelete) =>
       /\ last.invoked
       /\ last.loadPath = ByPrecedence(last.path, last.localAtCall, last.remoteAtCall)

\* C4, as claimed: a read(path, L2) called while the cache holds the load of
\* another loader L1 for the path invokes L2, and what a call of read returns
\* was loaded by its own loader.
C4_CacheKeyedByPathAndLoader ==
    /\ (last.op = "read" /\ last.cached \notin {"none", last.loader}) =>
          last.invoked /\ last.by = last.loader
    /\ (last.op = "return" /\ last.status = "returned") => last.by = last.loader

\* C6, as claimed: whenever a local file exists at the path, read invokes the
\* loader on the local path.
C6_LocalFileIsLoadedLocally ==
    (last.op = "read" /\ last.invoked /\ last.localAtCall) => last.loadPath = last.path

\* C9, as claimed: a read whose load fails throws the wrapped error, with the
\* cause and the location the loader was invoked on.
C9_LoadErrorCarriesLoadPath ==
    (last.op \in {"read", "return"} /\ last.cause # NoResult) =>
       /\ last.status = "threw"
       /\ last.result.type = "Exception"
       /\ last.result.cause = last.cause
       /\ last.result.fullpath = last.loadPath

\* C9, amended: a read whose load fails (the loader throws, or its promise
\* rejects) throws the wrapped error, with the cause and the full path of the
\* file under src, also when the loader was invoked on the url of a remote file;
\* a read whose load does not fail throws nothing.
C9_LoadErrorCarriesFullPath ==
    /\ (last.op \in {"read", "return"} /\ last.cause # NoResult) =>
          /\ last.status = "threw"
          /\ last.result = [type |-> "Exception", message |-> "Couldn't load this file",
                            cause |-> last.cause, fullpath |-> last.path]
          /\ last.path = getFullPath(Rel(<<"f">>))
    /\ (last.op \in {"read", "return"} /\ last.cause = NoResult) =>
          last.status # "threw"

\* a read of a remote file fails after its await: the loader was invoked on the
\* url and the error carries the full path
C9_Witness ==
    /\ last.op = "return"
    /\ last.status = "threw"
    /\ last.loadPath \in Urls
    /\ last.result.cause = last.cause
    /\ last.result.fullpath = last.path

\* the loads of fullpath that rejected and that no deleteCache or clearCache
\* has followed
FailedLoads(fullpath) ==
    {id \in LoadsOf(fullpath) : loads[id].status = "rejected" /\ ~loads[id].inval}

\* C27: while a load of the path has rejected and neither deleteCache of the
\* path nor clearCache was called since, a read of the path, with whatever
\* loader, invokes no loader and awaits that rejected promise, and it throws
\* the error of that load wrapped; the read that follows a deleteCache of the
\* path invokes its loader.
C27_FailedLoadStaysCached ==
    /\ (last.op = "read" /\ FailedLoads(last.path) # {}) =>
          /\ ~last.invoked
          /\ last.load \in FailedLoads(last.path)
          /\ cacheHas(last.path) /\ cache[last.path] = last.load
    /\ (last.op = "return" /\ last.load \in DOMAIN loads
          /\ loads[last.load].status = "rejected") =>
          /\ last.status = "threw"
          /\ last.result = Exception(Cause(last.load), last.path)
    /\ (last.op = "read" /\ last.afterDelete) => last.invoked

\* C27, witness: a read with another loader was called after the load of the
\* path had rejected and had thrown to an earlier read; it awaits the rejected
\* promise
C27_Witness ==
    /\ last.op = "read"
    /\ ~last.invoked
    /\ last.load \in FailedLoads(last.path)
    /\ last.loader # loads[last.load].loader
    /\ loads[last.load].delivered # {}

-----------------------------------------------------------------------------
(* Claims on the remote overlay *)

\* C5: getInfo of a path where a remote file is registered reports, when no
\* local file is there, the zero-size file and leaves the remote file enabled
\* and, when a local file or directory is there, its local info and leaves the
\* remote file disabled; whatever creations, deletions and calls came before.
C5_GetInfoShadowsRemoteFile ==
    (last.op = "getInfo" /\ last.path \in DOMAIN remoteFiles) =>
       /\ last.ret = "info"
       /\ IF Local(last.path) = "none"
          THEN /\ last.info = [isFile |-> TRUE, isDirectory |-> FALSE,
                               isSymlink |-> FALSE, size |-> 0, mtime |-> "null"]
               /\ remoteFiles[last.path].disabled = "false"
          ELSE /\ last.info.mtime = "time"
               /\ last.info.isFile = (Local(last.path) = "file")
               /\ last.info.isDirectory = (Local(last.path) = "dir")
               /\ remoteFiles[last.path].disabled = "true"

\* getInfo has enabled again a remote file that an earlier call had disabled:
\* the local file is gone
C5_Witness ==
    /\ last.op = "getInfo"
    /\ last.path \in DOMAIN remoteFiles
    /\ last.before = "true"
    /\ Local(last.path) = "none"
    /\ last.info.isFile
    /\ remoteFiles[last.path].disabled = "false"

\* the entries the claim C7 gives for the directory fullPath: the local ones,
\* the remote directories and the remote files
LocalSide(fullPath) ==
    {[name |-> q.segs[Len(q.segs)], isFile |-> localFS[q] = "file",
      isDirectory |-> localFS[q] = "dir", isSymlink |-> FALSE] :
        q \in {x \in DOMAIN localFS : localFS[x] # "none" /\ dirname(x) = fullPath}}

RemoteDirectorySide(fullPath) ==
    {[name |-> q.segs[Len(q.segs)], isFile |-> FALSE, isDirectory |-> TRUE,
      isSymlink |-> FALSE] :
        q \in {x \in remoteDirectories : dirname(x) = fullPath}}

Shadowed(q) ==
    \E e \in LocalSide(dirname(q)) : e.name = q.segs[Len(q.segs)]

RemoteFileSide(fullPath) ==
    {[name |-> q.segs[Len(q.segs)], isFile |-> TRUE, isDirectory |-> FALSE,
      isSymlink |-> FALSE] :
        q \in {x \in DOMAIN remoteFiles : dirname(x) = fullPath /\ ~Shadowed(x)}}

\* C7: what readDir(path) yields is the union of the entries of the local
\* directory, the remote directories whose parent is path and the remote files
\* whose parent is path and whose name no local entry has; the remote files of
\* the directory are left disabled when a local entry has their name (and
\* enabled when none has).
C7_ReadDirYieldsUnion ==
    last.op = "readDir" =>
       /\ Range(last.yielded) = LocalSide(last.path)
                                    \cup RemoteDirectorySide(last.path)
                                    \cup RemoteFileSide(last.path)
       /\ \A q \in DOMAIN remoteFiles :
             dirname(q) = last.path =>
                remoteFiles[q].disabled = IF Shadowed(q) THEN "true" ELSE "false"

\* readDir has yielded a local entry, a remote directory and a remote file, and
\* has left out a remote file that a local entry shadows
C7_Witness ==
    /\ last.op = "readDir"
    /\ \E e \in Range(last.yielded) : e \in LocalSide(last.path)
    /\ \E e \in Range(last.yielded) : e \in RemoteDirectorySide(last.path)
    /\ \E e \in Range(last.yielded) : e \in RemoteFileSide(last.path) \ LocalSide(last.path)
    /\ \E q \in DOMAIN remoteFiles :
          /\ dirname(q) = last.path
          /\ Shadowed(q)
          /\ remoteFiles[q].disabled = "true"
          /\ \A i \in DOMAIN last.yielded :
                last.yielded[i].name = basename(q) => ~last.yielded[i].isFile
                                                       \/ last.yielded[i] \in LocalSide(last.path)

\* the directories strictly between the source root and the path q
Ancestors(q) ==
    {P(TRUE, SubSeq(q.segs, 1, k), FALSE) :
        k \in (Len(Src.segs) + 1) .. (Len(q.segs) - 1)}

RemoteAncestors == UNION {Ancestors(q) : q \in DOMAIN remoteFiles}

\* C8 as stated: every ancestor of a registered remote file is a remote
\* directory, and for such a directory with no local counterpart getInfo
\* reports a directory and readDir of its parent lists it.
C8_AncestorsAreRemoteDirectories ==
    /\ RemoteAncestors \subseteq remoteDirectories
    /\ (/\ last.op = "getInfo"
        /\ last.path \in RemoteAncestors
        /\ Local(last.path) = "none")
          => /\ last.ret = "info"
             /\ last.info.isDirectory
    /\ last.op = "readDir" =>
          \A a \in RemoteAncestors :
             (dirname(a) = last.path /\ Local(a) = "none") =>
                \E i \in DOMAIN last.yielded :
                   /\ last.yielded[i].name = basename(a)
                   /\ last.yielded[i].isDirectory

\* C8, amended: the same, where getInfo reports a directory for an ancestor
\* that has no local counterpart and at whose own path no remote file is
\* registered.
C8_AncestorsAreRemoteDirectoriesUnlessRemoteFile ==
    /\ RemoteAncestors \subseteq remoteDirectories
    /\ (/\ last.op = "getInfo"
        /\ last.path \in RemoteAncestors
        /\ last.path \notin DOMAIN remoteFiles
        /\ Local(last.path) = "none")
          => /\ last.ret = "info"
             /\ last.info.isDirectory
             /\ ~last.info.isFile
    /\ last.op = "readDir" =>
          \A a \in RemoteAncestors :
             (dirname(a) = last.path /\ Local(a) = "none") =>
                \E i \in DOMAIN last.yielded :
                   /\ last.yielded[i].name = basename(a)
                   /\ last.yielded[i].isDirectory

\* a remote file two directories deep is registered and getInfo has reported
\* its upper directory, which exists on neither side as a file, as a directory
C8_Witness ==
    /\ \E q \in DOMAIN remoteFiles : Cardinality(Ancestors(q)) = 2
    /\ last.op = "getInfo"
    /\ last.path \in RemoteAncestors
    /\ \E a \in RemoteAncestors : dirname(a) = last.path
    /\ last.path \notin DOMAIN remoteFiles
    /\ Local(last.path) = "none"
    /\ last.info.isDirectory

\* C28, as claimed: no listing of readDir(path) yields the same entry name
\* twice.
C28_ReadDirYieldsNoNameTwice ==
    last.op = "readDir" =>
        \A i, j \in DOMAIN last.yielded :
            last.yielded[i].name = last.yielded[j].name => i = j

\* C26, as claimed: every call of remoteFile(filename, url) returns: no call
\* is left in its loop over the parent directories, whatever the filename.
C26_RemoteFileTerminates == ~rf.active

-----------------------------------------------------------------------------
(* Claims on the build cycle *)

Events(st) == {st.events[i] : i \in DOMAIN st.events}

\* C10: in a cycle whose beforeRender event was cancelled, no page is saved,
\* no static file is copied and none of afterRender, afterBuild and
\* afterUpdate is dispatched.
C10_BeforeRenderCancelStopsTheCycle ==
    ([type |-> "beforeRender", result |-> FALSE] \in Events(site)) =>
       /\ "savePages" \notin Range(site.calls)
       /\ "copyFiles" \notin Range(site.calls)
       /\ site.saved = <<>>
       /\ \A e \in Events(site) :
             e.type \notin {"afterRender", "afterBuild", "afterUpdate"}

\* an update that found pages has ended at its cancelled beforeRender
C10_Witness ==
    /\ site.kind = "update"
    /\ site.pc = "idle"
    /\ site.scanned # <<>>
    /\ [type |-> "beforeRender", result |-> FALSE] \in Events(site)
    /\ [type |-> "beforeUpdate", result |-> TRUE] \in Events(site)

\* the steps that may have run when the event `type` is dispatched
StepsBefore(type) ==
    CASE type \in {"beforeBuild", "beforeUpdate"} -> {}
      [] type = "beforeRender" ->
            {"clear", "searcher.deleteCache", "deleteCache", "removeFiles", "scan"}
      [] type = "beforeSave" ->
            {"clear", "searcher.deleteCache", "deleteCache", "removeFiles", "scan",
             "render", "processors"}
      [] OTHER -> {}

BeforeEvents == {"beforeBuild", "beforeUpdate", "beforeRender", "beforeSave"}

\* C11: in a cycle in which beforeBuild, beforeUpdate, beforeRender or
\* beforeSave was cancelled, that event is the last one dispatched, build /
\* update has returned, only steps that come before the event have run, and
\* writer.savePages and writer.copyFiles have not been called.
C11_CancelledBeforeEventEndsTheCycle ==
    \A i \in DOMAIN site.events :
       (site.events[i].type \in BeforeEvents /\ site.events[i].result = FALSE) =>
          /\ i = Len(site.events)
          /\ site.pc = "idle"
          /\ site.outcome = "cancelled"
          /\ Range(site.calls) \subseteq StepsBefore(site.events[i].type)
          /\ site.saved = <<>>

\* a cycle has ended at its cancelled beforeSave, after the pages were rendered
\* and processed
C11_Witness ==
    /\ site.pc = "idle"
    /\ site.events # <<>>
    /\ site.events[Len(site.events)] = [type |-> "beforeSave", result |-> FALSE]
    /\ site.pages # <<>>
    /\ "processors" \in Range(site.calls)
    /\ "savePages" \notin Range(site.calls)

\* the cycle has ended cancelled by a listener of a before* event
CancelledBefore ==
    /\ site.pc = "idle"
    /\ site.outcome = "cancelled"
    /\ site.events[Len(site.events)].type \in BeforeEvents

\* the cycle has ended with an error of the step `names`
FailedIn(names) ==
    /\ site.pc = "idle"
    /\ site.outcome = "failed"
    /\ site.calls[Len(site.calls)] \in names

\* C12, as claimed: a cycle cancelled by a before* listener, or failed in the
\* scan, the render or the processors, leaves every output that was in the dest
\* folder when the cycle started there, with its content.
C12_CancelledOrFailedCycleKeepsDest ==
    (CancelledBefore \/ FailedIn({"scan", "render", "processors"})) =>
       \A u \in DOMAIN site.destAtStart :
          u \in DOMAIN site.dest /\ site.dest[u] = site.destAtStart[u]

\* C13, as claimed: the pages handed to writer.savePages have a url, a content
\* that is not empty and no ondemand flag, with any listeners and processors
\* registered; and each page the filter drops for its content or for being
\* ondemand is logged with its reason.
C13_SavedPagesAreNotEmpty ==
    /\ \A i \in DOMAIN site.saved :
          /\ site.saved[i].url # "false"
          /\ ~isEmpty(site.saved[i].content)
          /\ ~site.saved[i].ondemand
    /\ site.pc = "afterRender" =>
          \A i \in DOMAIN site.merged :
             /\ (site.merged[i].ondemand /\ site.merged[i].url # "false") =>
                   [url |-> site.merged[i].url,
                    reason |-> "page is build only on demand"] \in site.log
             /\ (/\ isEmpty(site.merged[i].content)
                 /\ ~site.merged[i].ondemand
                 /\ site.merged[i].url # "false") =>
                   [url |-> site.merged[i].url,
                    reason |-> "file content is empty"] \in site.log

\* the text of a content: nothing for a page without content
ContentText(content) == IF content = undefinedContent THEN <<>> ELSE content

\* the indexes of the pages of the list with the url
WithUrl(pages, url) == {i \in DOMAIN pages : pages[i].url = url}

\* C14, as claimed: after the merge of the extra code, the first page that had
\* the url of the extra code has its previous content followed by the extra
\* code, and no page with that url was added; when no page had the url, the
\* extra code is one page of its own.
C14_ExtraCodeIsAppended ==
    (site.pc = "afterRender" /\ Len(site.extras) = 1) =>
       LET extra == site.extras[1]
           had == WithUrl(site.scanned, extra.url)
           has == WithUrl(site.merged, extra.url)
       IN  IF had = {}
           THEN /\ Cardinality(has) = 1
                /\ \A i \in has : site.merged[i] = extra
           ELSE /\ has = had
                /\ \E i \in had :
                      /\ \A j \in had : i <= j
                      /\ site.merged[i].content =
                            ContentText(site.scanned[i].content)
                               \o <<"\n">> \o ContentText(extra.content)

\* the pages handed to savePages and the static files were all in the dest
\* folder, with their content, when the cycle started: the source tree is as it
\* was when it was built before
BuiltBefore ==
    /\ site.kind = "build"
    /\ "copyFiles" \in Range(site.calls)
    /\ site.error = "none"
    /\ \A i \in DOMAIN site.saved :
          /\ site.saved[i].url \in DOMAIN site.destAtStart
          /\ site.destAtStart[site.saved[i].url] = site.saved[i].content
    /\ \A i \in DOMAIN StaticFiles :
          /\ StaticFiles[i].url \in DOMAIN site.destAtStart
          /\ site.destAtStart[StaticFiles[i].url] = StaticFiles[i].content

\* C15, as claimed: the build of a source tree that was built before, with
\* nothing changed, writes no file: savePages and copyFiles give empty lists.
C15_SecondBuildWritesNothing ==
    BuiltBefore => (site.wrote = <<>> /\ site.copied = <<>>)

\* C15, amended: the same, in a site with the option emptyDest set to false.
C15_SecondBuildWritesNothingUnlessEmptyDest ==
    (BuiltBefore /\ ~site.emptyDest) => (site.wrote = <<>> /\ site.copied = <<>>)

\* a second build, in a site that does not empty its dest folder, has saved its
\* pages and copied its files without writing any
C15_Witness ==
    /\ BuiltBefore
    /\ ~site.emptyDest
    /\ site.cycles = 2
    /\ site.pc = "idle"
    /\ site.saved # <<>>
    /\ site.wrote = <<>>
    /\ site.copied = <<>>

CommonKeys(given, user) == DOMAIN Props(given) \cap DOMAIN Props(user)

\* a scalar: a number or null
isScalar(x) == x.t \in {"number", "null"}

\* the properties of mine with those of theirs over them
Override(mine, theirs) ==
    [key \in DOMAIN mine \cup DOMAIN theirs |->
        IF key \in DOMAIN theirs THEN theirs[key] ELSE mine[key]]

\* merge(a, b) has been called
Merged == util.op = "merge" /\ util.ab # Undefined

\* C17, as claimed: in merge(defaults, user), for a key of both a scalar user
\* value replaces the value of defaults, two nested objects give their merge
\* (the keys of both, the user's value where both have one), and a key of one
\* side only keeps its value.
C17_CloserToLeafWins ==
    Merged =>
        LET given == Props(util.a)
            user == Props(util.b)
            result == Props(util.ab)
        IN  /\ util.ab.t = "object"
            /\ DOMAIN result = DOMAIN given \cup DOMAIN user
            /\ \A key \in DOMAIN result :
                /\ key \notin DOMAIN user => result[key] = given[key]
                /\ key \notin DOMAIN given => result[key] = user[key]
                /\ key \in CommonKeys(util.a, util.b) =>
                    /\ isScalar(user[key]) => result[key] = user[key]
                    /\ given[key].t = "object" /\ user[key].t = "object" =>
                           result[key] = Obj(Override(Props(given[key]), Props(user[key])))

\* C18, as claimed: in merge(defaults, user), a key whose user value is an
\* array has exactly that array in the result, whatever the value of defaults
\* for the key.
C18_LeafArrayReplaces ==
    Merged =>
        \A key \in DOMAIN Props(util.b) :
            isArray(Props(util.b)[key]) =>
                /\ key \in DOMAIN Props(util.ab)
                /\ Props(util.ab)[key] = Props(util.b)[key]

\* merge(merge(a, b), c) and merge(a, merge(b, c)) have been called
MergedBothWays ==
    util.op = "merge" /\ util.left # Undefined /\ util.right # Undefined

ValuesOf(objects, key) ==
    {Props(object)[key] : object \in {o \in objects : key \in DOMAIN Props(o)}}

\* no value of the data objects is null, and no key holds a nested object in
\* one of them and a scalar or an array in another
SameKinds(objects) ==
    \A key \in UNION {DOMAIN Props(object) : object \in objects} :
        /\ Null \notin ValuesOf(objects, key)
        /\ \/ \A value \in ValuesOf(objects, key) : value.t = "object"
           \/ \A value \in ValuesOf(objects, key) : value.t # "object"

Matches(path, extensions) ==
    {i \in DOMAIN extensions : endsWith(path, extensions[i].key)}

\* C20, as claimed: searchByExtension(path, extensions) returns the entry with
\* the longest key that the path ends with, whatever the order in which the
\* extensions were registered, and undefined when the path ends with no key.
C20_LongestSuffixMatches ==
    (util.op = "search" /\ util.called) =>
        LET matches == Matches(util.path, util.extensions)
        IN  IF matches = {} THEN util.result = NotFound
            ELSE /\ util.result # NotFound
                 /\ \E i \in matches :
                     /\ util.result.key = util.extensions[i].key
                     /\ util.result.value = util.extensions[i].value
                     /\ \A j \in matches :
                         Len(util.extensions[j].key) <= Len(util.extensions[i].key)

\* the events and the steps of a whole cycle, in the order of the claim
\* (the clear only in a build with emptyDest)
CycleOrder(kind, emptyDest) ==
    <<IF kind = "build" THEN "beforeBuild" ELSE "beforeUpdate">>
    \o (IF kind = "build" /\ emptyDest THEN <<"clear">> ELSE <<>>)
    \o <<"scan", "beforeRender", "render", "afterRender", "processors",
         "beforeSave", "savePages", "copyFiles">>
    \o <<IF kind = "build" THEN "afterBuild" ELSE "afterUpdate">>

PhaseEvents ==
    {"beforeBuild", "beforeUpdate", "beforeRender", "afterRender", "beforeSave",
     "afterBuild", "afterUpdate"}

PhaseSteps == {"clear", "scan", "render", "processors", "savePages", "copyFiles"}

\* the types of the events dispatched in the cycle, in their order
EventTypes(st) == [i \in DOMAIN st.events |-> st.events[i].type]

\* the steps of the claim that ran in the cycle, in their order
StepsRun(st) == SelectSeq(st.calls, LAMBDA name : name \in PhaseSteps)

IsPrefix(short, long) ==
    /\ Len(short) <= Len(long)
    /\ \A i \in DOMAIN short : short[i] = long[i]

\* C22: in a build or update that is neither cancelled nor failed, the events
\* and the steps happen once each in the order beforeBuild (beforeUpdate),
\* clear (in a build with emptyDest), scan, beforeRender, render, afterRender,
\* processors, beforeSave, savePages, copyFiles, afterBuild (afterUpdate):
\* what has happened so far is a beginning of that order, and is the whole of
\* it when the cycle is done.
C22_PhasesInOrder ==
    (site.kind # "none" /\ site.outcome \notin {"cancelled", "failed"}) =>
        LET order == CycleOrder(site.kind, site.emptyDest)
            events == SelectSeq(order, LAMBDA name : name \in PhaseEvents)
            steps == SelectSeq(order, LAMBDA name : name \in PhaseSteps)
            happened == Len(site.events) + Len(StepsRun(site))
        IN  /\ IsPrefix(EventTypes(site), events)
            /\ IsPrefix(StepsRun(site), steps)
            \* the events and steps that have happened are the first ones of the order
            /\ happened <= Len(order)
            /\ Cardinality({i \in 1..happened : order[i] \in PhaseEvents}) = Len(site.events)
            /\ site.outcome = "done" =>
                  /\ EventTypes(site) = events
                  /\ StepsRun(site) = steps

\* C22, witness: an update, the second cycle of the site, is done after its
\* five events and its steps
C22_Witness ==
    /\ site.outcome = "done"
    /\ site.kind = "update"
    /\ site.cycles = 2
    /\ Len(site.events) = 5
    /\ "copyFiles" \in Range(site.calls)

\* the outputs of the pages and static files that site holds from the cycle
\* before
PreviousOutputs(st) ==
    {st.pages[i].url : i \in DOMAIN st.pages} \cup {st.files[i].url : i \in DOMAIN st.files}

\* what a step of a cycle does to the outputs: the step that starts an update
\* removes the outputs of the changed entries; no later step of the cycle calls
\* removeFiles or takes an output out of the dest folder
RemovesOutputsOfChangedEntries ==
    /\ (site.pc = "idle" /\ site'.pc = "scan" /\ site'.kind = "update") =>
          /\ site'.entries \subseteq site'.changed
          /\ site'.removed =
                 {output \in PreviousOutputs(site) : sourceOf(output) \in site'.entries}
          /\ DOMAIN site'.dest = DOMAIN site.dest \ site'.removed
          /\ (site'.entries # {}) =>
                 /\ "deleteCache" \in Range(site'.calls)
                 /\ "removeFiles" \in Range(site'.calls)
          /\ "scan" \notin Range(site'.calls)
    /\ (site.pc # "idle") =>
          /\ DOMAIN site.dest \subseteq DOMAIN site'.dest
          /\ ("removeFiles" \in Range(site'.calls)) = ("removeFiles" \in Range(site.calls))

\* C23: an update that is not cancelled deletes the caches of the changed files
\* and passes to writer.removeFiles, before the scan, the outputs of the pages
\* and static files of the cycle before whose source is a changed file with an
\* entry, and no output of another source; nothing is removed later in the
\* cycle.
C23_UpdateRemovesOutputsOfChangedEntries == [][RemovesOutputsOfChangedEntries]_vars

\* C23, witness: an update removed the output of the page of the changed
\* source and left the output of another page, before its scan
C23_Witness ==
    /\ site.kind = "update"
    /\ site.pc = "scan"
    /\ site.entries = {"/a.md"}
    /\ site.changed = {"/a.md", "/s.png"}
    /\ site.removed = {"/a/"}
    /\ {"/a/", "/c.css", "/s.png"} \subseteq PreviousOutputs(site)
    /\ DOMAIN site.dest = {"/c.css", "/s.png"}

\* C25, as claimed: in a renderPage in which a listener of
\* beforeRenderOnDemand returned false, renderer.renderPageOnDemand is not
\* called and the processors are not run on the page.
C25_CancelledOnDemandRenderStops ==
    (/\ site.kind = "renderPage"
     /\ [type |-> "beforeRenderOnDemand", result |-> FALSE] \in Events(site)) =>
        /\ "renderPageOnDemand" \notin Range(site.calls)
        /\ "processors" \notin Range(site.calls)
        /\ site.rendered = <<>>

-----------------------------------------------------------------------------
(* Claims on concurrent *)

\* the invocations of iteratorFn in flight: started and not yet settled
Running == {item \in 1..util.items : util.promise[item] = "running"}

\* C21: at no moment are more than limit invocations of iteratorFn in flight,
\* for every number of items and every order in which the operations settle.
C21_AtMostLimitInFlight ==
    util.op = "concurrent" => Cardinality(Running) <= util.limit

\* C21, witness: with more items than the limit, limit invocations are in
\* flight after an earlier one has settled and the loop has gone on
C21_Witness ==
    /\ util.op = "concurrent"
    /\ util.limit < util.items
    /\ Cardinality(Running) = util.limit
    /\ util.pc = "race"
    /\ \E item \in 1..util.items : util.promise[item] = "fulfilled"

\* concurrent has returned or thrown
ConcurrentEnded == util.op = "concurrent" /\ util.pc \in {"resolved", "rejected"}

\* C24, as claimed: concurrent invokes iteratorFn exactly once for every item
\* of the iterable, and when no invocation fails it resolves only after every
\* invocation has settled.
C24_EveryItemOnceAndAllSettled ==
    ConcurrentEnded =>
        /\ \A item \in 1..util.items : util.invoked[item] = 1
        /\ (\A item \in 1..util.items : util.promise[item] # "rejected") =>
               /\ util.pc = "resolved"
               /\ Running = {}

\* C24, amended: concurrent never invokes iteratorFn twice for an item, and
\* when it resolves it has invoked iteratorFn once for every item and every
\* invocation has settled without failure; when an invocation fails, it throws
\* (and the items that are left are not started).
C24_ResolvedAfterEveryItemSettled ==
    util.op = "concurrent" =>
        /\ \A item \in 1..util.items : util.invoked[item] <= 1
        /\ util.pc = "resolved" =>
               \A item \in 1..util.items :
                   /\ util.invoked[item] = 1
                   /\ util.promise[item] = "fulfilled"
        /\ util.pc = "rejected" =>
               \E item \in 1..util.items : util.promise[item] = "rejected"

\* C24, witness: concurrent resolved after the race was awaited for some items
\* and Promise.all for the last ones
C24_Witness ==
    /\ util.op = "concurrent"
    /\ util.pc = "resolved"
    /\ util.items = MaxItems
    /\ util.limit = 2
    /\ \A item \in 1..util.items : util.invoked[item] = 1

-----------------------------------------------------------------------------
(* Claims on the options of Site *)

\* C29, as claimed: after any number of constructions of sites the array
\* defaults.watcher.ignore is as it was when the module was loaded (empty), and
\* no two sites have the same array as their watcher ignore list.
C29_ConstructionLeavesDefaults ==
    util.op = "sites" =>
        /\ util.heap[DefaultsIgnore] = <<>>
        /\ \A i, j \in DOMAIN util.sites :
              util.sites[i].ignore = util.sites[j].ignore => i = j

====
